---- MODULE Spec2Model ----
(***************************************************************************)
(* Matchmaking and session-relay engine of the render signalling server    *)
(* (src/index.ts and its superset src/unnamed/part_000, which adds the     *)
(* mini-game relay handlers).                                              *)
(*                                                                         *)
(* One connection is one socket and one User object.  socket.id and the    *)
(* uuid of the User are both fresh per connection and never reused, so the *)
(* n-th connection is modelled by the number n, which stands for both.     *)
(* The User objects live on the heap (variable user): waitingUsers and     *)
(* activeUsers hold references to them, so an object stays readable while  *)
(* the pool still refers to it, registered or not.                         *)
(*                                                                         *)
(* Every handler runs to completion (Node's single-threaded event loop),   *)
(* so every handler is one action.  outbox is what the handler emitted,    *)
(* relayed the room emit it made (the sender and the sockets the label     *)
(* resolved to), matched the call of findPartner it made.  The fresh       *)
(* message id and timestamp of a chat message are not modelled.            *)
(***************************************************************************)
EXTENDS Integers, Sequences, FiniteSets, TLC

\* ------------------------------------------------------------------ bounds
\* connections accepted in a run
MaxUsers == 3
\* sessions established in a run
MaxSessions == 2
\* length of an interest list handed to the matcher
MaxInterests == 1

Ids == 1..MaxUsers
Tags == {"music", "art"}
Payloads == {"hi"}

\* ------------------------------------------------------------------ values
NoId == 0
NoRoom == <<>>
NoPayload == ""

\* interests?: string[]  -- undefined, or an array of tags
Undefined == [defined |-> FALSE, list |-> <<>>]
Defined(l) == [defined |-> TRUE, list |-> l]

RECURSIVE SeqsUpTo(_, _)
SeqsUpTo(S, n) ==
  IF n = 0 THEN {<<>>}
  ELSE LET shorter == SeqsUpTo(S, n - 1)
       IN shorter \cup {Append(q, x) : q \in shorter, x \in S}

\* the interest lists the matcher is exercised on
InterestLists == {Undefined} \cup {Defined(l) : l \in SeqsUpTo(Tags, MaxInterests)}

\* the payloads of find-partner in a run of the engine
InterestInputs == {Undefined, Defined(<<"music">>)}

\* `room-${currentUser.id}-${partner.id}`
RoomId(cur, partner) == <<cur, partner>>
RoomInputs == {RoomId(ab[1], ab[2]) : ab \in {x \in Ids \X Ids : x[1] # x[2]}}

\* interface User, as created by the connection handler
NewUser == [interests |-> Undefined, inChat |-> FALSE, partnerId |-> NoId]

\* no call of findPartner by the last handler
NoCall == [requester |-> NoId, pool |-> <<>>, partner |-> NoId]

\* no emit to a room by the last handler
NoRelay == [sender |-> NoId, chat |-> FALSE, audience |-> {}]

\* one emitted notification
Note(to, ev) ==
  [to |-> to, ev |-> ev, partnerId |-> NoId, roomId |-> NoRoom, initiator |-> FALSE,
   from |-> NoId, payload |-> NoPayload, count |-> 0]

VARIABLES
  activeUsers,   \* keys of the Map activeUsers (socket ids of the registered users)
  user,          \* heap of User objects, by id
  waitingUsers,  \* the array waitingUsers, as the sequence of ids of its objects
  rooms,         \* rooms[s]: the room labels socket s has joined
  outbox,        \* notifications emitted by the last handler, in order
  nextId,        \* number of connections accepted so far, plus one
  sessions,      \* number of sessions established so far
  matched,       \* the call of findPartner the last handler made: its arguments and its result
  relayed        \* the last emit to a room: the sender and the sockets the label resolved to

vars == <<activeUsers, user, waitingUsers, rooms, outbox, nextId, sessions, matched, relayed>>

\* ----------------------------------------------------------------- helpers
RECURSIVE SetToSeq(_)
SetToSeq(S) ==
  IF S = {} THEN <<>>
  ELSE LET m == CHOOSE x \in S : \A y \in S : x <= y
       IN <<m>> \o SetToSeq(S \ {m})

\* Array.prototype.includes
Includes(arr, x) == \E k \in 1..Len(arr) : arr[k] = x

\* splice that drops the last element whatever the index (pop)
SpliceLast(arr, i) == SubSeq(arr, 1, Len(arr) - 1)

\* Array.prototype.splice(i, 1) on a 1-based sequence
Splice(arr, i) == SubSeq(arr, 1, i - 1) \o SubSeq(arr, i + 1, Len(arr))

\* Array.prototype.findIndex and the for loops that return at the first hit:
\* the first index whose test holds, 0 for none (-1, or the loop running out);
\* hit[k] is the test on the k-th element
FindIndex(hit) ==
  IF \E k \in 1..Len(hit) : hit[k]
  THEN CHOOSE k \in 1..Len(hit) : hit[k] /\ \A j \in 1..(k - 1) : ~hit[j]
  ELSE 0

\* user.interests.filter(interest => potentialPartner.interests?.includes(interest))
CommonInterests(mine, theirs) ==
  SelectSeq(mine.list, LAMBDA interest : theirs.defined /\ Includes(theirs.list, interest))

\* the condition of the first loop of findPartner for one pool entry
InterestMatch(heap, uid, pid) ==
  /\ pid # uid
  /\ heap[pid].interests.defined
  /\ Len(CommonInterests(heap[uid].interests, heap[pid].interests)) > 0

\* findPartner without its first loop: the first entry that is not the requester
findPartnerIndexFirstFit(heap, pool, uid) ==
  FindIndex([k \in 1..Len(pool) |-> pool[k] # uid])

\* findPartner with its second loop starting one entry too late
findPartnerIndexSkipsFirst(heap, pool, uid) ==
  LET first == IF heap[uid].interests.defined /\ Len(heap[uid].interests.list) > 0
               THEN FindIndex([k \in 1..Len(pool) |-> InterestMatch(heap, uid, pool[k])])
               ELSE 0
  IN IF first # 0 THEN first
     ELSE FindIndex([k \in 1..Len(pool) |-> k > 1 /\ pool[k] # uid])

\* findPartner without its second loop for a requester that has interests
findPartnerIndexNoFallback(heap, pool, uid) ==
  IF heap[uid].interests.defined /\ Len(heap[uid].interests.list) > 0
  THEN FindIndex([k \in 1..Len(pool) |-> InterestMatch(heap, uid, pool[k])])
  ELSE FindIndex([k \in 1..Len(pool) |-> pool[k] # uid])

\* function findPartner(user): the index it splices out of the pool, 0 for null
findPartnerIndex(heap, pool, uid) ==
  LET first == IF heap[uid].interests.defined /\ Len(heap[uid].interests.list) > 0
               THEN FindIndex([k \in 1..Len(pool) |-> InterestMatch(heap, uid, pool[k])])
               ELSE 0
  IN IF first # 0 THEN first
     ELSE FindIndex([k \in 1..Len(pool) |-> pool[k] # uid])

\* findPartner that reads waitingUsers[i] and leaves the entry in the pool
findPartnerKeepsEntry(heap, pool, uid) ==
  LET i == findPartnerIndex(heap, pool, uid)
  IN IF i = 0 THEN [partner |-> NoId, pool |-> pool]
     ELSE [partner |-> pool[i], pool |-> pool]

findPartner(heap, pool, uid) ==
  LET i == findPartnerIndex(heap, pool, uid)
  IN IF i = 0 THEN [partner |-> NoId, pool |-> pool]
     ELSE [partner |-> pool[i], pool |-> Splice(pool, i)]

\* removeFromWaiting that never finds the entry
removeFromWaitingNever(pool, userId) == pool

removeFromWaiting(pool, userId) ==
  LET index == FindIndex([k \in 1..Len(pool) |-> pool[k] = userId])
  IN IF index # 0 THEN Splice(pool, index) ELSE pool

\* activeUsers.size
OnlineCount(reg) == Cardinality(reg)

\* io.emit(ev, count): to every connected socket
Broadcast(reg, ev, n) ==
  LET to == SetToSeq(reg)
  IN [k \in 1..Len(to) |-> [Note(to[k], ev) EXCEPT !.count = n]]

\* the sockets grouped under a room label
Members(roomId) == {t \in activeUsers : roomId \in rooms[t]}

\* io.to(roomId) in the place of socket.to(roomId): the sender is not left out
ToRoomIncludingSender(s, roomId, ev, payload, from) ==
  LET to == SetToSeq(Members(roomId))
  IN [k \in 1..Len(to) |-> [Note(to[k], ev) EXCEPT !.payload = payload, !.from = from]]

\* socket.to(roomId).emit(ev, ...): every member of the room but the sender
ToRoom(s, roomId, ev, payload, from) ==
  LET to == SetToSeq(Members(roomId) \ {s})
  IN [k \in 1..Len(to) |-> [Note(to[k], ev) EXCEPT !.payload = payload, !.from = from]]

\* io.to(roomId).emit(ev, msgData): every member of the room
IoToRoom(roomId, ev, payload, senderId) ==
  LET to == SetToSeq(Members(roomId))
  IN [k \in 1..Len(to) |->
        [Note(to[k], ev) EXCEPT !.payload = payload, !.partnerId = senderId]]

\* the partner taken from partnerId as it is, without the lookup in the registry
PartnerEntryUnchecked(partnerId) == partnerId

\* Array.from(activeUsers.entries()).find(([, u]) => u.id === partnerId)
PartnerEntry(partnerId) == IF partnerId \in activeUsers THEN partnerId ELSE NoId

\* sockets that have connected at some time, still connected or not
Sockets == 1..(nextId - 1)

\* --------------------------------------------------------------------- Init
Init ==
  /\ activeUsers = {}
  /\ user = [i \in Ids |-> NewUser]
  /\ waitingUsers = <<>>
  /\ rooms = [i \in Ids |-> {}]
  /\ outbox = <<>>
  /\ nextId = 1
  /\ sessions = 0
  /\ matched = NoCall
  /\ relayed = NoRelay

\* ------------------------------------------------------------------ actions
\* io.on("connection")
Connect ==
  /\ nextId <= MaxUsers
  /\ LET s == nextId
         reg == activeUsers \cup {s}
     IN /\ activeUsers' = reg
        /\ user' = [user EXCEPT ![s] = NewUser]
        /\ outbox' = <<[Note(s, "user-id") EXCEPT !.partnerId = s],
                       [Note(s, "online-count") EXCEPT !.count = OnlineCount(reg)]>>
                     \o Broadcast(reg, "online-count", OnlineCount(reg))
        /\ nextId' = nextId + 1
  /\ relayed' = NoRelay
  /\ matched' = NoCall
  /\ UNCHANGED <<waitingUsers, rooms, sessions>>

\* the match branch with the two initiator flags exchanged
EstablishInitiatorSwapped(s, heap, found) ==
  LET p == found.partner
      roomId == RoomId(s, p)
      partnerSocket == p \in activeUsers
  IN /\ user' = [heap EXCEPT ![s].partnerId = p, ![s].inChat = TRUE,
                             ![p].partnerId = s, ![p].inChat = TRUE]
     /\ waitingUsers' = found.pool
     /\ rooms' = [t \in Ids |->
                    IF t = s \/ (t = p /\ partnerSocket)
                    THEN rooms[t] \cup {roomId} ELSE rooms[t]]
     /\ outbox' = <<[Note(s, "partner-found") EXCEPT
                       !.partnerId = p, !.roomId = roomId, !.initiator = FALSE]>>
                  \o (IF partnerSocket
                      THEN <<[Note(p, "partner-found") EXCEPT
                                !.partnerId = s, !.roomId = roomId, !.initiator = TRUE]>>
                      ELSE <<>>)
     /\ sessions' = sessions + 1

\* the match branch of the find-partner handler
Establish(s, heap, found) ==
  LET p == found.partner
      roomId == RoomId(s, p)
      partnerSocket == p \in activeUsers
  IN /\ user' = [heap EXCEPT ![s].partnerId = p, ![s].inChat = TRUE,
                             ![p].partnerId = s, ![p].inChat = TRUE]
     /\ waitingUsers' = found.pool
     /\ rooms' = [t \in Ids |->
                    IF t = s \/ (t = p /\ partnerSocket)
                    THEN rooms[t] \cup {roomId} ELSE rooms[t]]
     /\ outbox' = <<[Note(s, "partner-found") EXCEPT
                       !.partnerId = p, !.roomId = roomId, !.initiator = TRUE]>>
                  \o (IF partnerSocket
                      THEN <<[Note(p, "partner-found") EXCEPT
                                !.partnerId = s, !.roomId = roomId, !.initiator = FALSE]>>
                      ELSE <<>>)
     /\ sessions' = sessions + 1

\* the else branch without waitingUsers.push(currentUser)
EnqueueWithoutPush(s, heap, found) ==
  /\ user' = heap
  /\ waitingUsers' = found.pool
  /\ rooms' = rooms
  /\ outbox' = <<Note(s, "waiting")>>
  /\ sessions' = sessions

\* the else branch of the find-partner handler
Enqueue(s, heap, found) ==
  /\ user' = heap
  /\ waitingUsers' = Append(found.pool, s)
  /\ rooms' = rooms
  /\ outbox' = <<Note(s, "waiting")>>
  /\ sessions' = sessions

\* find-partner without currentUser.inChat = false
RequestingKeepsInChat(s, interests) == [user EXCEPT ![s].interests = interests]

\* what find-partner does to the requester before it looks for a partner
Requesting(s, interests) ==
  [user EXCEPT ![s].interests = interests, ![s].inChat = FALSE]

\* socket.on("find-partner")
FindPartner(s, interests) ==
  IF s \notin activeUsers
  THEN /\ outbox' = <<>>
       /\ relayed' = NoRelay
       /\ matched' = NoCall
       /\ UNCHANGED <<activeUsers, user, waitingUsers, rooms, nextId, sessions>>
  ELSE LET heap == Requesting(s, interests)
           found == findPartner(heap, removeFromWaiting(waitingUsers, s), s)
       IN /\ IF found.partner # NoId
             THEN Establish(s, heap, found)
             ELSE Enqueue(s, heap, found)
          /\ relayed' = NoRelay
          /\ matched' = [requester |-> s, pool |-> removeFromWaiting(waitingUsers, s),
                         partner |-> found.partner]
          /\ UNCHANGED <<activeUsers, nextId>>

\* cancel-search that answers without taking the entry out of the pool
CancelSearchNotifyOnly(s) ==
  /\ outbox' = IF s \in activeUsers THEN <<Note(s, "search-cancelled")>> ELSE <<>>
  /\ relayed' = NoRelay
  /\ matched' = NoCall
  /\ UNCHANGED <<activeUsers, user, waitingUsers, rooms, nextId, sessions>>

\* socket.on("cancel-search")
CancelSearch(s) ==
  /\ IF s \in activeUsers
     THEN /\ waitingUsers' = removeFromWaiting(waitingUsers, s)
          /\ outbox' = <<Note(s, "search-cancelled")>>
     ELSE /\ waitingUsers' = waitingUsers
          /\ outbox' = <<>>
  /\ relayed' = NoRelay
  /\ matched' = NoCall
  /\ UNCHANGED <<activeUsers, user, rooms, nextId, sessions>>

\* a handler of the form socket.to(roomId).emit(ev, payload)
Relay(s, roomId, ev, payload, from) ==
  /\ outbox' = ToRoom(s, roomId, ev, payload, from)
  /\ relayed' = [sender |-> s, chat |-> FALSE, audience |-> Members(roomId)]
  /\ matched' = NoCall
  /\ UNCHANGED <<activeUsers, user, waitingUsers, rooms, nextId, sessions>>

WebrtcSignal(s, roomId, signal) == Relay(s, roomId, "webrtc-signal", signal, s)

\* socket.on("send-message")
SendMessage(s, roomId, message) ==
  /\ IF s \notin activeUsers
     THEN outbox' = <<>> /\ relayed' = NoRelay
     ELSE /\ outbox' = IoToRoom(roomId, "receive-message", message, s)
          /\ relayed' = [sender |-> s, chat |-> TRUE, audience |-> Members(roomId)]
  /\ matched' = NoCall
  /\ UNCHANGED <<activeUsers, user, waitingUsers, rooms, nextId, sessions>>

Typing(s, roomId, isTyping) == Relay(s, roomId, "partner-typing", isTyping, NoId)

RequestGame(s, roomId, gameType) == Relay(s, roomId, "game-request", gameType, NoId)

AcceptGame(s, roomId, gameType) == Relay(s, roomId, "game-accepted", gameType, NoId)

DeclineGame(s, roomId, gameType) == Relay(s, roomId, "game-declined", gameType, NoId)

StartGame(s, roomId, gameType) == Relay(s, roomId, "game-started", gameType, NoId)

TicTacToeMove(s, roomId, move) == Relay(s, roomId, "tic-tac-toe-move", move, NoId)

TicTacToePlayAgain(s, roomId) == Relay(s, roomId, "tic-tac-toe-play-again", NoPayload, NoId)

WyrChoice(s, roomId, choice) == Relay(s, roomId, "wyr-choice", choice, NoId)

WyrNextQuestion(s, roomId, question) == Relay(s, roomId, "wyr-next-question", question, NoId)

\* the teardown without partner.inChat = false
ClearPartnerIdOnly(heap, partner) ==
  IF partner # NoId THEN [heap EXCEPT ![partner].partnerId = NoId] ELSE heap

\* the teardown of the partner's side, shared by skip-partner and disconnect:
\* the heap after it
ClearPartner(heap, partner) ==
  IF partner # NoId
  THEN [heap EXCEPT ![partner].partnerId = NoId, ![partner].inChat = FALSE]
  ELSE heap

PartnerDisconnected(partner) ==
  IF partner # NoId THEN <<Note(partner, "partner-disconnected")>> ELSE <<>>

\* socket.on("skip-partner")
SkipPartner(s) ==
  IF s \notin activeUsers \/ user[s].partnerId = NoId
  THEN /\ outbox' = <<>>
       /\ relayed' = NoRelay
       /\ matched' = NoCall
       /\ UNCHANGED <<activeUsers, user, waitingUsers, rooms, nextId, sessions>>
  ELSE LET partner == PartnerEntry(user[s].partnerId)
       IN /\ user' = [ClearPartner(user, partner) EXCEPT
                        ![s].partnerId = NoId, ![s].inChat = FALSE]
          /\ outbox' = PartnerDisconnected(partner) \o <<Note(s, "chat-ended")>>
          /\ relayed' = NoRelay
          /\ matched' = NoCall
          /\ UNCHANGED <<activeUsers, waitingUsers, rooms, nextId, sessions>>

\* activeUsers.delete(socket.id) drops the registry's reference to the User
\* object: unless the pool still holds one, the object is gone
Unreferenced(heap, s, pool) ==
  IF Includes(pool, s) THEN heap ELSE [heap EXCEPT ![s] = NewUser]

\* socket.on("disconnect")
Disconnect(s) ==
  IF s \notin activeUsers
  THEN /\ outbox' = Broadcast(activeUsers, "online-count", OnlineCount(activeUsers))
       /\ relayed' = NoRelay
       /\ matched' = NoCall
       /\ UNCHANGED <<activeUsers, user, waitingUsers, rooms, nextId, sessions>>
  ELSE LET partner == PartnerEntry(user[s].partnerId)
           reg == activeUsers \ {s}
           pool == removeFromWaiting(waitingUsers, s)
       IN /\ user' = Unreferenced(ClearPartner(user, partner), s, pool)
          /\ waitingUsers' = pool
          /\ activeUsers' = reg
          /\ rooms' = [rooms EXCEPT ![s] = {}]
          /\ outbox' = PartnerDisconnected(partner)
                       \o Broadcast(reg, "online-count", OnlineCount(reg))
          /\ relayed' = NoRelay
          /\ matched' = NoCall
          /\ UNCHANGED <<nextId, sessions>>

Next ==
  \/ Connect
  \/ \E s \in Sockets, interests \in InterestInputs :
       sessions < MaxSessions /\ FindPartner(s, interests)
  \/ \E s \in Sockets : CancelSearch(s)
  \/ \E s \in Sockets, r \in RoomInputs, p \in Payloads : WebrtcSignal(s, r, p)
  \/ \E s \in Sockets, r \in RoomInputs, p \in Payloads : SendMessage(s, r, p)
  \/ \E s \in Sockets, r \in RoomInputs, p \in Payloads : Typing(s, r, p)
  \/ \E s \in Sockets, r \in RoomInputs, p \in Payloads : RequestGame(s, r, p)
  \/ \E s \in Sockets, r \in RoomInputs, p \in Payloads : AcceptGame(s, r, p)
  \/ \E s \in Sockets, r \in RoomInputs, p \in Payloads : DeclineGame(s, r, p)
  \/ \E s \in Sockets, r \in RoomInputs, p \in Payloads : StartGame(s, r, p)
  \/ \E s \in Sockets, r \in RoomInputs, p \in Payloads : TicTacToeMove(s, r, p)
  \/ \E s \in Sockets, r \in RoomInputs : TicTacToePlayAgain(s, r)
  \/ \E s \in Sockets, r \in RoomInputs, p \in Payloads : WyrChoice(s, r, p)
  \/ \E s \in Sockets, r \in RoomInputs, p \in Payloads : WyrNextQuestion(s, r, p)
  \/ \E s \in Sockets : SkipPartner(s)
  \/ \E s \in Sockets : Disconnect(s)

Spec == Init /\ [][Next]_vars

\* The handlers that read or write the registry, the pool and the pairing
\* fields: connect, find-partner, cancel-search, skip-partner, disconnect.
\* The relay handlers left out here change outbox and relayed alone.  Here
\* find-partner comes without an interest list; Spec and SpecMatcher vary it.
Lifecycle ==
  \/ Connect
  \/ \E s \in Sockets : sessions < MaxSessions /\ FindPartner(s, Undefined)
  \/ \E s \in Sockets : CancelSearch(s)
  \/ \E s \in Sockets : SkipPartner(s)
  \/ \E s \in Sockets : Disconnect(s)

SpecLifecycle == Init /\ [][Lifecycle]_vars

\* The same five handlers, find-partner with every interest list.
LifecycleInterests ==
  \/ Connect
  \/ \E s \in Sockets, interests \in InterestLists :
       sessions < MaxSessions /\ FindPartner(s, interests)
  \/ \E s \in Sockets : CancelSearch(s)
  \/ \E s \in Sockets : SkipPartner(s)
  \/ \E s \in Sockets : Disconnect(s)

SpecInterests == Init /\ [][LifecycleInterests]_vars

\* ------------------------------------------------ the matcher on its own
\* findPartner as a function of the requester and the pool: every pool of
\* distinct users and every assignment of interest lists, then calls of
\* findPartner by any user, one after the other.
Pools == {q \in SeqsUpTo(Ids, MaxUsers) : \A i, j \in 1..Len(q) : i # j => q[i] # q[j]}

MatcherInit ==
  /\ activeUsers = Ids
  /\ user \in [Ids -> {[NewUser EXCEPT !.interests = l] : l \in InterestLists}]
  /\ waitingUsers \in Pools
  /\ rooms = [i \in Ids |-> {}]
  /\ outbox = <<>>
  /\ nextId = MaxUsers + 1
  /\ sessions = 0
  /\ matched = NoCall
  /\ relayed = NoRelay

CallFindPartner(uid) ==
  LET found == findPartner(user, waitingUsers, uid)
  IN /\ waitingUsers' = found.pool
     /\ matched' = [requester |-> uid, pool |-> waitingUsers, partner |-> found.partner]
     /\ UNCHANGED <<activeUsers, user, rooms, outbox, nextId, sessions, relayed>>

MatcherNext == \E uid \in Ids : CallFindPartner(uid)

SpecMatcher == MatcherInit /\ [][MatcherNext]_vars

\* ================================================================ claims
Registered(a) == a \in activeUsers
HasPartner(a) == user[a].partnerId # NoId
InPool(a) == Includes(waitingUsers, a)
Sent(ev) == {k \in 1..Len(outbox) : outbox[k].ev = ev}

\* C1: for every two registered users A and B, A.partnerId = B.id if and
\* only if B.partnerId = A.id, after any sequence of connect, find-partner,
\* cancel-search, skip-partner and disconnect events.
PartnerSymmetry ==
  \A a, b \in activeUsers : (user[a].partnerId = b) <=> (user[b].partnerId = a)

\* C2: every partnerId held by a registered user is the id of a user that
\* is in the registry.
NoDanglingPartner ==
  \A a \in activeUsers : HasPartner(a) => Registered(user[a].partnerId)

\* C3: the waiting pool holds at most one entry per user id, and no user in
\* the pool has inChat = true.
PoolEntriesUniqueAndIdle ==
  /\ \A i, j \in 1..Len(waitingUsers) : i # j => waitingUsers[i] # waitingUsers[j]
  /\ \A i \in 1..Len(waitingUsers) : ~user[waitingUsers[i]].inChat

\* a find-partner has just put its requester into the pool, after a session
\* had been established before
PoolEntryAfterFindPartner ==
  /\ Len(waitingUsers) = 1
  /\ outbox = <<Note(waitingUsers[1], "waiting")>>
  /\ sessions > 0

\* C4: every entry of the waiting pool is a registered user (so the
\* disconnect of a waiting user has removed its entry), and the two users a
\* find-partner matches are both registered.
NoStalePoolEntries ==
  /\ \A i \in 1..Len(waitingUsers) : Registered(waitingUsers[i])
  /\ \A k \in Sent("partner-found") :
       Registered(outbox[k].to) /\ Registered(outbox[k].partnerId)

\* some user has disconnected, and the find-partner of another user has
\* since found the pool empty
WaitingAfterDisconnect ==
  /\ \E s \in Sockets : ~Registered(s)
  /\ \E t \in activeUsers : outbox = <<Note(t, "waiting")>> /\ waitingUsers = <<t>>

\* C5: when a user whose partner is registered issues skip-partner or
\* disconnects, both have inChat = false and no partnerId afterwards (the
\* disconnecting one is removed), and exactly one partner-disconnected is
\* sent, to the partner and not to the user itself.
TeardownStep(s) ==
  /\ Registered(s)
  /\ Registered(user[s].partnerId)
  /\ SkipPartner(s) \/ Disconnect(s)

TeardownClearsBothSides ==
  [][\A s \in Sockets :
       TeardownStep(s) =>
         LET p == user[s].partnerId
         IN /\ ~user'[p].inChat /\ user'[p].partnerId = NoId
            /\ p \in activeUsers'
            /\ SkipPartner(s) =>
                 s \in activeUsers' /\ ~user'[s].inChat /\ user'[s].partnerId = NoId
            /\ Disconnect(s) => s \notin activeUsers'
            /\ \E k \in 1..Len(outbox') :
                 /\ outbox'[k] = Note(p, "partner-disconnected")
                 /\ p # s
                 /\ \A j \in 1..Len(outbox') :
                      outbox'[j].ev = "partner-disconnected" => j = k]_vars

\* a skip-partner of s has just torn down its session with the registered p
SkippedRegisteredPartner ==
  \E s, p \in activeUsers :
    /\ s # p
    /\ outbox = <<Note(p, "partner-disconnected"), Note(s, "chat-ended")>>
    /\ ~user[s].inChat /\ ~user[p].inChat

\* C6: a registered user has a partnerId if and only if its inChat is true.
PartnerIffInChat ==
  \A a \in activeUsers : HasPartner(a) <=> user[a].inChat

\* C7: a find-partner that establishes a match sends exactly two
\* partner-found notifications: initiator = true to the requester,
\* initiator = false to the user taken from the pool, both with the same
\* room label, each naming the other user's id.
FoundNote(to, other, roomId, initiator) ==
  [Note(to, "partner-found") EXCEPT
     !.partnerId = other, !.roomId = roomId, !.initiator = initiator]

InitiatorIsRequester ==
  [][\A s \in Sockets, interests \in InterestInputs :
       (/\ \E k \in 1..Len(outbox') : outbox'[k].ev = "partner-found"
        /\ FindPartner(s, interests))
         => \E p \in Ids :
              /\ p # s
              /\ InPool(p)
              /\ ~Includes(waitingUsers', p)
              /\ Len(outbox') = 2
              /\ outbox'[1].roomId # NoRoom
              /\ outbox'[1] = FoundNote(s, p, outbox'[1].roomId, TRUE)
              /\ outbox'[2] = FoundNote(p, s, outbox'[1].roomId, FALSE)]_vars

\* a match has just been notified to both sides
MatchNotified ==
  /\ Len(outbox) = 2
  /\ outbox[1].ev = "partner-found" /\ outbox[1].initiator
  /\ outbox[2].ev = "partner-found" /\ ~outbox[2].initiator
  /\ outbox[1].to # outbox[2].to

Recipients(box) == {box[k].to : k \in 1..Len(box)}
DeliveredOnceTo(box, S) == Len(box) = Cardinality(S) /\ Recipients(box) = S

RelayReachesOnlyCurrentPartner ==
  (relayed # NoRelay /\ relayed.sender \in relayed.audience) =>
    \A t \in Recipients(outbox) \ {relayed.sender} :
      /\ user[relayed.sender].partnerId = t
      /\ user[t].partnerId = relayed.sender

\* C10: when the requester's interest list is non-empty and the pool holds
\* a candidate other than the requester that shares a tag with it,
\* findPartner returns a candidate that shares a tag.
Tagged(a) == IF user[a].interests.defined
             THEN {user[a].interests.list[k] : k \in 1..Len(user[a].interests.list)}
             ELSE {}
Shares(a, b) == a # b /\ Tagged(a) \cap Tagged(b) # {}

InterestTierWins ==
  (/\ matched.requester # NoId
   /\ \E k \in 1..Len(matched.pool) : Shares(matched.requester, matched.pool[k]))
    => /\ matched.partner # NoId
       /\ Includes(matched.pool, matched.partner)
       /\ Shares(matched.requester, matched.partner)

\* findPartner has passed over an earlier candidate that shares no tag and
\* returned a later one that does
LaterSharingCandidateChosen ==
  /\ matched.requester # NoId
  /\ Len(matched.pool) >= 2
  /\ matched.pool[1] # matched.requester
  /\ ~Shares(matched.requester, matched.pool[1])
  /\ \E k \in 2..Len(matched.pool) : matched.partner = matched.pool[k]
  /\ Shares(matched.requester, matched.partner)

\* C11: among the candidates of the tier findPartner selects from (the
\* candidates sharing a tag when the requester has tags and some candidate
\* shares one, otherwise all entries other than the requester), the one
\* returned is the earliest in the pool, exactly that entry is removed, and
\* the other entries keep their order; with an empty tier nothing is
\* returned and the pool is as it was.
Tier(requester, pool) ==
  LET sharing == {k \in 1..Len(pool) : Shares(requester, pool[k])}
  IN IF sharing # {} THEN sharing
     ELSE {k \in 1..Len(pool) : pool[k] # requester}

Without(pool, k) ==
  [j \in 1..(Len(pool) - 1) |-> IF j < k THEN pool[j] ELSE pool[j + 1]]

FifoWithinTier ==
  matched.requester # NoId =>
    LET tier == Tier(matched.requester, matched.pool)
    IN IF tier = {}
       THEN matched.partner = NoId /\ waitingUsers = matched.pool
       ELSE \E k \in tier :
              /\ \A j \in tier : k <= j
              /\ matched.partner = matched.pool[k]
              /\ waitingUsers = Without(matched.pool, k)

\* findPartner has returned the second entry of a pool of three, the first
\* of two candidates of its tier, and left the first and the third behind
EarliestOfTwoCandidatesChosen ==
  /\ matched.requester # NoId
  /\ Len(matched.pool) = 3
  /\ Tier(matched.requester, matched.pool) = {2, 3}
  /\ matched.partner = matched.pool[2]
  /\ waitingUsers = <<matched.pool[1], matched.pool[3]>>

\* C12: findPartner never returns the requester itself, and it returns
\* nothing exactly when the pool is empty or every entry is the requester;
\* no user's partnerId is its own id.
NoSelfMatch ==
  /\ matched.requester # NoId =>
       /\ matched.partner # matched.requester
       /\ matched.partner = NoId
            <=> \A k \in 1..Len(matched.pool) : matched.pool[k] = matched.requester
  /\ \A a \in Ids : user[a].partnerId # a

\* a find-partner has just taken another user from the pool, and the two
\* name each other
MatchedWithAnother ==
  /\ matched.requester # NoId
  /\ matched.partner # NoId
  /\ Includes(matched.pool, matched.partner)
  /\ user[matched.requester].partnerId = matched.partner
  /\ user[matched.partner].partnerId = matched.requester

\* C13: an event of a connection that has no registered User (find-partner,
\* cancel-search, skip-partner, send-message, webrtc-signal, typing, a game
\* event, a second disconnect) leaves the registry, the pool and every
\* user's pairing fields as they were and sends no notification to anyone.
EventOf(s) ==
  \/ \E interests \in InterestInputs : FindPartner(s, interests)
  \/ CancelSearch(s)
  \/ SkipPartner(s)
  \/ Disconnect(s)
  \/ \E r \in RoomInputs, p \in Payloads :
       \/ WebrtcSignal(s, r, p) \/ SendMessage(s, r, p) \/ Typing(s, r, p)
       \/ RequestGame(s, r, p) \/ AcceptGame(s, r, p) \/ DeclineGame(s, r, p)
       \/ StartGame(s, r, p) \/ TicTacToeMove(s, r, p) \/ TicTacToePlayAgain(s, r)
       \/ WyrChoice(s, r, p) \/ WyrNextQuestion(s, r, p)

UnknownConnectionIsSilent ==
  [][\A s \in Sockets :
       (~Registered(s) /\ EventOf(s)) =>
         /\ outbox' = <<>>
         /\ UNCHANGED <<activeUsers, waitingUsers, user>>]_vars

\* C14: when skip-partner or disconnect is processed for a registered user
\* whose partnerId names a user that is no longer registered, no
\* partner-disconnected is sent, no other user's fields change, and the
\* user itself is cleared and told chat-ended (skip) or removed from the pool
\* and the registry (disconnect).
StalePartner(s) == Registered(s) /\ HasPartner(s) /\ ~Registered(user[s].partnerId)

StalePartnerProceedsQuietly ==
  [][\A s \in Sockets :
       (StalePartner(s) /\ (SkipPartner(s) \/ Disconnect(s))) =>
         /\ \A k \in 1..Len(outbox') : outbox'[k].ev # "partner-disconnected"
         /\ \A a \in Ids \ {s} : user'[a] = user[a]
         /\ SkipPartner(s) =>
              /\ Registered(s)' /\ ~HasPartner(s)' /\ ~user'[s].inChat
              /\ outbox' = <<Note(s, "chat-ended")>>
              /\ UNCHANGED <<activeUsers, waitingUsers>>
         /\ Disconnect(s) =>
              /\ ~Registered(s)' /\ ~InPool(s)'
              /\ activeUsers' = activeUsers \ {s}]_vars

\* a skip-partner has just ended the chat of a user whose partner had left
\* the registry: nobody else was notified
SkippedStalePartner ==
  \E s \in activeUsers :
    /\ outbox = <<Note(s, "chat-ended")>>
    /\ ~HasPartner(s) /\ ~user[s].inChat
    /\ \E p \in Sockets : ~Registered(p)

\* C15: a skip-partner of a registered user that is not Paired changes
\* neither the registry, the pool nor any user's pairing fields and sends
\* nothing; a skip-partner of a Paired user leaves that user and its
\* partner Idle: registered, not in a session, not in the pool.
Paired(a) == Registered(a) /\ user[a].inChat
IdleAfter(a) == a \in activeUsers' /\ ~user'[a].inChat /\ ~Includes(waitingUsers', a)

SkipOnlyWhenPaired ==
  [][\A s \in Sockets :
       (Registered(s) /\ SkipPartner(s)) =>
         IF Paired(s)
         THEN /\ IdleAfter(s)
              /\ Registered(user[s].partnerId) => IdleAfter(user[s].partnerId)
         ELSE /\ outbox' = <<>>
              /\ UNCHANGED <<activeUsers, waitingUsers, user>>]_vars

\* C16 as stated: a cancel-search of a registered user changes neither the
\* registry nor any user's pairing fields.  If the user is in the pool it is
\* removed, is Idle afterwards and is sent search-cancelled; if it is not,
\* the pool stays as it is and nothing is sent.  A find-partner is only ever
\* matched to a user that is in the pool, so never to one that has cancelled
\* and not asked again.
OnlyPoolEntriesAreMatched ==
  \A k \in 1..Len(outbox') :
    outbox'[k].ev = "partner-found" =>
      InPool(outbox'[k].to) \/ InPool(outbox'[k].partnerId)

CancelOnlyWhenWaiting ==
  [][/\ \A s \in Sockets :
          (Registered(s) /\ CancelSearch(s)) =>
            /\ UNCHANGED <<activeUsers, user>>
            /\ IF InPool(s)
               THEN /\ IdleAfter(s)
                    /\ outbox' = <<Note(s, "search-cancelled")>>
               ELSE /\ waitingUsers' = waitingUsers
                    /\ outbox' = <<>>
     /\ OnlyPoolEntriesAreMatched]_vars

\* C16 as amended: the same, but search-cancelled is sent to the requester
\* in both cases, whether it was in the pool or not.
CancelSearchDequeues ==
  [][/\ \A s \in Sockets :
          (Registered(s) /\ CancelSearch(s)) =>
            /\ UNCHANGED <<activeUsers, user>>
            /\ outbox' = <<Note(s, "search-cancelled")>>
            /\ IF InPool(s)
               THEN IdleAfter(s)
               ELSE waitingUsers' = waitingUsers
     /\ OnlyPoolEntriesAreMatched]_vars

\* a user that had asked for a new partner while Paired, and was waiting
\* for one, has just cancelled its search
CancelledWhileWaiting ==
  \E s \in activeUsers :
    /\ outbox = <<Note(s, "search-cancelled")>>
    /\ ~InPool(s)
    /\ ~user[s].inChat /\ HasPartner(s)

\* C17: a find-partner of a registered user ends in exactly one of two
\* ways.  Match, when the pool held another user: that user is taken out of
\* the pool, the two are in a session with each other, both are sent
\* partner-found, and the requester is not in the pool.  No match, when the
\* pool held nobody else: the requester is appended to the pool, is not in
\* a session and is sent waiting.  The requester is never sent both and is
\* never in a session and in the pool.
OthersWaiting(requester, pool) == {k \in 1..Len(pool) : pool[k] # requester}

FindPartnerOutcome ==
  matched.requester # NoId =>
    LET s == matched.requester
        p == matched.partner
    IN /\ ~(user[s].inChat /\ InPool(s))
       /\ IF OthersWaiting(s, matched.pool) # {}
          THEN /\ p # NoId /\ p # s
               /\ Includes(matched.pool, p)
               /\ ~InPool(p) /\ ~InPool(s)
               /\ user[s].inChat /\ user[s].partnerId = p
               /\ user[p].inChat /\ user[p].partnerId = s
               /\ Len(outbox) = 2
               /\ outbox[1] = FoundNote(s, p, outbox[1].roomId, TRUE)
               /\ outbox[2] = FoundNote(p, s, outbox[1].roomId, FALSE)
          ELSE /\ p = NoId
               /\ waitingUsers = Append(matched.pool, s)
               /\ ~user[s].inChat
               /\ outbox = <<Note(s, "waiting")>>

\* both outcomes in one run: a find-partner has just found the pool empty
\* and put its requester there, after an earlier one had ended in a match
EnqueuedAfterEarlierMatch ==
  /\ matched.requester # NoId
  /\ matched.partner = NoId
  /\ matched.pool = <<>>
  /\ waitingUsers = <<matched.requester>>
  /\ sessions > 0

\* C18: the waiting pool never holds more than one user, and a find-partner
\* of a user other than the one waiting is matched with it and leaves the
\* pool empty.
PoolHoldsAtMostOne ==
  /\ Len(waitingUsers) <= 1
  /\ (matched.requester # NoId /\ OthersWaiting(matched.requester, matched.pool) # {})
       => /\ matched.pool = <<matched.partner>>
          /\ waitingUsers = <<>>

\* the find-partner of a second user has just taken the only waiting user
\* and left the pool empty
SingleWaitingUserTaken ==
  /\ matched.requester # NoId
  /\ Len(matched.pool) = 1
  /\ matched.partner = matched.pool[1]
  /\ matched.partner # matched.requester
  /\ waitingUsers = <<>>

\* C19: the engine and an engine whose matcher has no interest pass (it
\* always takes the first pool entry that is not the requester) go side by
\* side: from the same state, every connect, find-partner, cancel-search,
\* skip-partner and disconnect, with any interest list, leaves both with the
\* same pairings, the same pool and the same notifications.
findPartnerFirstFit(heap, pool, uid) ==
  LET i == findPartnerIndexFirstFit(heap, pool, uid)
  IN IF i = 0 THEN [partner |-> NoId, pool |-> pool]
     ELSE [partner |-> pool[i], pool |-> Splice(pool, i)]

FindPartnerFirstFit(s, interests) ==
  IF s \notin activeUsers
  THEN /\ outbox' = <<>>
       /\ relayed' = NoRelay
       /\ matched' = NoCall
       /\ UNCHANGED <<activeUsers, user, waitingUsers, rooms, nextId, sessions>>
  ELSE LET heap == Requesting(s, interests)
           found == findPartnerFirstFit(heap, removeFromWaiting(waitingUsers, s), s)
       IN /\ IF found.partner # NoId
             THEN Establish(s, heap, found)
             ELSE Enqueue(s, heap, found)
          /\ relayed' = NoRelay
          /\ matched' = [requester |-> s, pool |-> removeFromWaiting(waitingUsers, s),
                         partner |-> found.partner]
          /\ UNCHANGED <<activeUsers, nextId>>

LifecycleFirstFit ==
  \/ Connect
  \/ \E s \in Sockets, interests \in InterestLists :
       sessions < MaxSessions /\ FindPartnerFirstFit(s, interests)
  \/ \E s \in Sockets : CancelSearch(s)
  \/ \E s \in Sockets : SkipPartner(s)
  \/ \E s \in Sockets : Disconnect(s)

InterestsNeverChangeTheMatch == [][LifecycleFirstFit]_vars

\* a requester with a tag has just been matched with a waiting user that
\* shares none, although a third registered user shares its tag
MatchedAcrossInterests ==
  /\ matched.requester # NoId
  /\ matched.partner # NoId
  /\ Tagged(matched.requester) # {}
  /\ ~Shares(matched.requester, matched.partner)
  /\ \E c \in activeUsers : Shares(matched.requester, c)

====
